---- MODULE Spec2Model ----
(***************************************************************************)
(* Model of the Oraculo question/answer store (src/oraculo.py):            *)
(* BancoDeDados (the JSON-backed record store), GerenciadorIA (the         *)
(* completion client) and Oraculo.processar_pergunta (the orchestrator).   *)
(***************************************************************************)
EXTENDS Integers, Sequences, FiniteSets, TLC

(***************************************************************************)
(* Bounds of the model.                                                    *)
(***************************************************************************)
MaxPerguntas == 2

(***************************************************************************)
(* Python values.  t is the Python type, s the string payload, n the       *)
(* integer payload (a bool is n = 1 or n = 0).  "absent" is a key that a   *)
(* dict does not have; "obj" is an object json cannot serialise (the       *)
(* uploaded file that src/app.py passes as contexto).                      *)
(***************************************************************************)
PyAbsent == [t |-> "absent", s |-> "", n |-> 0]
PyNone == [t |-> "None", s |-> "", n |-> 0]
PyStr(x) == [t |-> "str", s |-> x, n |-> 0]
PyInt(i) == [t |-> "int", s |-> "", n |-> i]
PyBool(b) == [t |-> "bool", s |-> "", n |-> IF b THEN 1 ELSE 0]
PyObj == [t |-> "obj", s |-> "UploadedFile", n |-> 0]

PyTrue == PyBool(TRUE)
PyFalse == PyBool(FALSE)

\* Python truthiness of a value (bool(v)).
Truthy(v) ==
    CASE v.t = "absent" -> FALSE
      [] v.t = "None" -> FALSE
      [] v.t = "str" -> v.s # ""
      [] v.t = "int" -> v.n # 0
      [] v.t = "bool" -> v.n # 0
      [] OTHER -> TRUE

\* The keys of a question record, in the order the code inserts them.
Chaves == <<"id", "pergunta", "contexto", "resposta", "data", "respondida",
            "data_resposta">>

\* A dict without any key.
DictVazio == [k \in {Chaves[i] : i \in 1..Len(Chaves)} |-> PyAbsent]

\* dict.get(key, default)
DictGet(d, key, default) == IF d[key].t = "absent" THEN default ELSE d[key]

(***************************************************************************)
(* Inputs.                                                                 *)
(***************************************************************************)
\* datetime.now().isoformat(): the wall clock, an input of every call.
Timestamps == {"2025-01-01T10:00:00"}

\* pergunta arguments of processar_pergunta: empty, whitespace only, not a
\* string, and a valid question.
PerguntasEntrada == {PyStr(""), PyStr("   "), PyInt(7), PyStr("O que e sabedoria?")}

\* contexto arguments: none, and the uploaded-file object.
ContextosEntrada == {PyNone, PyObj}

\* The text of the first completion choice, as the service sends it.
ConteudoIA == "  A sabedoria nasce da duvida.  "

\* str.strip() of the strings of the model.
Strip(x) ==
    CASE x = "   " -> ""
      [] x = ConteudoIA -> "A sabedoria nasce da duvida."
      [] OTHER -> x

(***************************************************************************)
(* JSON documents.  A JSON value is [j, s, n] with j the JSON type; an     *)
(* object is the sequence of its members [k, v] in document order.         *)
(***************************************************************************)
JNull == [j |-> "null", s |-> "", n |-> 0]
JString(x) == [j |-> "string", s |-> x, n |-> 0]
JNumber(i) == [j |-> "number", s |-> "", n |-> i]
JTrue == [j |-> "true", s |-> "", n |-> 0]
JFalse == [j |-> "false", s |-> "", n |-> 0]

\* json can serialise v.
Serializavel(v) == v.t \in {"None", "str", "int", "bool"}

\* json.dump with None written as the string "None" (a default=str encoder).
JsonDeValorNoneComoTexto(v) ==
    CASE v.t = "None" -> JString("None")
      [] v.t = "str" -> JString(v.s)
      [] v.t = "int" -> JNumber(v.n)
      [] v.t = "bool" -> IF v.n = 1 THEN JTrue ELSE JFalse

\* json.dump of one value.
JsonDeValor(v) ==
    CASE v.t = "None" -> JNull
      [] v.t = "str" -> JString(v.s)
      [] v.t = "int" -> JNumber(v.n)
      [] v.t = "bool" -> IF v.n = 1 THEN JTrue ELSE JFalse

\* json.load of one value.
ValorDeJson(x) ==
    CASE x.j = "null" -> PyNone
      [] x.j = "string" -> PyStr(x.s)
      [] x.j = "number" -> PyInt(x.n)
      [] x.j = "true" -> PyTrue
      [] x.j = "false" -> PyFalse

RECURSIVE MembrosDe(_, _)
\* The members json.dump writes for the keys Chaves[i..] of dict d.
MembrosDe(d, i) ==
    IF i > Len(Chaves) THEN <<>>
    ELSE IF d[Chaves[i]].t = "absent" THEN MembrosDe(d, i + 1)
    ELSE <<[k |-> Chaves[i], v |-> JsonDeValor(d[Chaves[i]])]>> \o MembrosDe(d, i + 1)

\* json.dump of a record.
JsonDeRegistro(d) == MembrosDe(d, 1)

\* json.load of an object: the dict holding each member under its key.
RegistroDeJson(o) ==
    [k \in DOMAIN DictVazio |->
        IF \E i \in 1..Len(o) : o[i].k = k
        THEN ValorDeJson(o[CHOOSE i \in 1..Len(o) : o[i].k = k].v)
        ELSE PyAbsent]

\* Every value of every record of the list can be serialised.
TudoSerializavel(ps) ==
    \A i \in 1..Len(ps) : \A k \in DOMAIN ps[i] :
        ps[i][k].t = "absent" \/ Serializavel(ps[i][k])

(***************************************************************************)
(* The backing file.  kind: "absent" (no file), "empty" (size 0),          *)
(* "invalid" (not JSON: garbage or a truncated document) or "json"; for    *)
(* "json", top is the type of the top-level value, contem whether          *)
(* "perguntas" is in it (a key, an element or a substring), lista whether  *)
(* the value under that key is a list, itens the objects of that list.     *)
(***************************************************************************)
Arq(kind, top, contem, lista, itens) ==
    [kind |-> kind, top |-> top, contem |-> contem, lista |-> lista, itens |-> itens]

ArqAusente == Arq("absent", "", FALSE, FALSE, <<>>)
ArqVazio == Arq("empty", "", FALSE, FALSE, <<>>)
ArqInvalido == Arq("invalid", "", FALSE, FALSE, <<>>)

\* The document json.dump(self.dados) writes: {"perguntas": [...]}.
ArqDoc(ps) == Arq("json", "dict", TRUE, TRUE, [i \in 1..Len(ps) |-> JsonDeRegistro(ps[i])])

\* Valid JSON of the wrong shape.
ArquivosFormaErrada ==
    { Arq("json", "None", FALSE, FALSE, <<>>),
      Arq("json", "int", FALSE, FALSE, <<>>),
      Arq("json", "bool", FALSE, FALSE, <<>>),
      Arq("json", "str", FALSE, FALSE, <<>>),
      Arq("json", "str", TRUE, FALSE, <<>>),
      Arq("json", "list", FALSE, FALSE, <<>>),
      Arq("json", "list", TRUE, FALSE, <<>>),
      Arq("json", "dict", FALSE, FALSE, <<>>),
      Arq("json", "dict", TRUE, FALSE, <<>>) }

\* What the file may hold before the program first runs.
ArquivosIniciais ==
    {ArqAusente, ArqVazio, ArqInvalido, ArqDoc(<<>>)} \cup ArquivosFormaErrada

(***************************************************************************)
(* BancoDeDados._carregar                                                  *)
(***************************************************************************)
\* The records of a loaded document.
RegistrosDe(arq) == [i \in 1..Len(arq.itens) |-> RegistroDeJson(arq.itens[i])]

\* The try body of _carregar: the record list it leaves in self.dados and
\* the exception it raises ("" when none).
CarregarCorpo(arq) ==
    IF arq.kind \in {"absent", "empty"}
    THEN [dados |-> <<>>, exc |-> ""]
    ELSE IF arq.kind = "invalid"
    THEN [dados |-> <<>>, exc |-> "JSONDecodeError"]
    ELSE IF arq.top \in {"None", "int", "bool"}
    THEN [dados |-> <<>>, exc |-> "TypeError"]       \* "perguntas" not in <scalar>
    ELSE IF ~arq.contem
    THEN [dados |-> <<>>, exc |-> ""]
    ELSE IF arq.top \in {"str", "list"}
    THEN [dados |-> <<>>, exc |-> "TypeError"]       \* self.dados["perguntas"]
    ELSE IF ~arq.lista
    THEN [dados |-> <<>>, exc |-> ""]
    ELSE [dados |-> RegistrosDe(arq), exc |-> ""]

\* _carregar with the json.JSONDecodeError clause alone.
CarregarExceptSoJson(r) ==
    IF r.exc = "JSONDecodeError" THEN [dados |-> <<>>, exc |-> ""] ELSE r

\* The except clauses of _carregar: json.JSONDecodeError, then Exception.
CarregarExcept(r) ==
    IF r.exc = "" THEN r
    ELSE IF r.exc = "JSONDecodeError" THEN [dados |-> <<>>, exc |-> ""]
    ELSE [dados |-> <<>>, exc |-> ""]

\* _carregar: the record list of the store and the exception that escapes.
Carregar(arq) == CarregarExcept(CarregarCorpo(arq))

(***************************************************************************)
(* BancoDeDados.salvar                                                     *)
(***************************************************************************)
\* What the file system does to one salvar(): the write goes through, mkdir
\* or open fails, or a write fails after open truncated the file, leaving
\* nothing or a part of the text.
ResultadosIO == {"ok", "open_fail", "write_fail_empty", "write_fail_partial"}

\* salvar() writing the newest record alone instead of the whole list.
SalvarSoUltimo(ps, arq, io) ==
    IF io = "open_fail" THEN [arquivo |-> arq, ok |-> FALSE]
    ELSE IF io = "write_fail_empty" THEN [arquivo |-> ArqVazio, ok |-> FALSE]
    ELSE IF io = "write_fail_partial" THEN [arquivo |-> ArqInvalido, ok |-> FALSE]
    ELSE IF ~TudoSerializavel(ps)
    THEN [arquivo |-> ArqInvalido, ok |-> FALSE]
    ELSE [arquivo |-> ArqDoc(SubSeq(ps, Len(ps), Len(ps))), ok |-> TRUE]

\* salvar(): the file it leaves and the boolean it returns.
Salvar(ps, arq, io) ==
    IF io = "open_fail" THEN [arquivo |-> arq, ok |-> FALSE]
    ELSE IF io = "write_fail_empty" THEN [arquivo |-> ArqVazio, ok |-> FALSE]
    ELSE IF io = "write_fail_partial" THEN [arquivo |-> ArqInvalido, ok |-> FALSE]
    ELSE IF ~TudoSerializavel(ps)
    THEN [arquivo |-> ArqInvalido, ok |-> FALSE]     \* json.dump raises midway
    ELSE [arquivo |-> ArqDoc(ps), ok |-> TRUE]

(***************************************************************************)
(* BancoDeDados.adicionar_pergunta                                         *)
(***************************************************************************)
RECURSIVE MaxId(_, _)
\* max([p.get("id", 0) for p in ps[i..]] + [0])
MaxId(ps, i) ==
    IF i > Len(ps) THEN 0
    ELSE LET a == DictGet(ps[i], "id", PyInt(0)).n
             b == MaxId(ps, i + 1)
         IN IF a > b THEN a ELSE b

\* next_id taken from the length of the list.
NextIdLen(ps) == Len(ps)

\* next_id
NextId(ps) == MaxId(ps, 1) + 1

\* The pending record adicionar_pergunta builds.
NovoRegistro(id, pergunta, contexto, agora) ==
    [DictVazio EXCEPT !["id"] = PyInt(id),
                      !["pergunta"] = pergunta,
                      !["contexto"] = contexto,
                      !["resposta"] = PyNone,
                      !["data"] = PyStr(agora),
                      !["respondida"] = PyFalse]

\* pergunta[:50] raises TypeError unless pergunta can be sliced.
Fatiavel(v) == v.t = "str"

\* What a BancoDeDados method leaves: the record list, the file, the value
\* returned and what its salvar() did ("none" when it was not called).
Efeito(ps, arq, ret, salvar) ==
    [dados |-> ps, arquivo |-> arq, ret |-> ret, salvar |-> salvar]

\* adicionar_pergunta appending the record only once it is saved.
AdicionarSoSeSalvou(ps, arq, pergunta, contexto, agora, io) ==
    LET novo == Append(ps, NovoRegistro(NextId(ps), pergunta, contexto, agora))
        sv == Salvar(novo, arq, io)
    IN IF ~Fatiavel(pergunta)
       THEN Efeito(ps, arq, 0, "none")
       ELSE IF sv.ok THEN Efeito(novo, sv.arquivo, Len(novo), "ok")
       ELSE Efeito(ps, sv.arquivo, 0, "falha")

\* adicionar_pergunta(pergunta, contexto); ret is the position of the new
\* record in the list (the returned dict is that list element) or 0 for None.
AdicionarPergunta(ps, arq, pergunta, contexto, agora, io) ==
    LET novo == Append(ps, NovoRegistro(NextId(ps), pergunta, contexto, agora))
        sv == Salvar(novo, arq, io)
    IN IF ~Fatiavel(pergunta)
       THEN Efeito(novo, arq, 0, "none")
       ELSE Efeito(novo, sv.arquivo, IF sv.ok THEN Len(novo) ELSE 0,
                   IF sv.ok THEN "ok" ELSE "falha")

(***************************************************************************)
(* BancoDeDados.responder_pergunta                                         *)
(***************************************************************************)
\* The search of responder_pergunta without the comparison of ids.
PosicoesDeQualquer(ps, id_pergunta) == {i \in 1..Len(ps) : id_pergunta.t = "int"}

\* The positions of the records whose id is id_pergunta.
PosicoesDe(ps, id_pergunta) ==
    {i \in 1..Len(ps) : DictGet(ps[i], "id", PyNone) = id_pergunta}

\* item.update without the data_resposta key.
AtualizarSemData(item, resposta, agora) ==
    [item EXCEPT !["resposta"] = resposta, !["respondida"] = PyTrue]

\* item.update({...})
Atualizar(item, resposta, agora) ==
    [item EXCEPT !["resposta"] = resposta,
                 !["respondida"] = PyTrue,
                 !["data_resposta"] = PyStr(agora)]

\* responder_pergunta calling salvar() whether or not the id was found.
ResponderSempreSalva(ps, arq, id_pergunta, resposta, agora, io) ==
    LET achados == {i \in 1..Len(ps) : DictGet(ps[i], "id", PyNone) = id_pergunta}
        i == CHOOSE x \in achados : \A y \in achados : x <= y
        novo == IF achados = {} THEN ps
                ELSE [ps EXCEPT ![i] = [ps[i] EXCEPT !["resposta"] = resposta,
                                                     !["respondida"] = PyTrue,
                                                     !["data_resposta"] = PyStr(agora)]]
        sv == Salvar(novo, arq, io)
    IN Efeito(novo, sv.arquivo, IF achados # {} /\ sv.ok THEN 1 ELSE 0,
              IF sv.ok THEN "ok" ELSE "falha")

\* responder_pergunta(id_pergunta, resposta); ret is 1 for True, 0 for False.
ResponderPergunta(ps, arq, id_pergunta, resposta, agora, io) ==
    LET achados == PosicoesDe(ps, id_pergunta)
    IN IF achados = {}
       THEN Efeito(ps, arq, 0, "none")
       ELSE LET i == CHOOSE x \in achados : \A y \in achados : x <= y
                novo == [ps EXCEPT ![i] = Atualizar(ps[i], resposta, agora)]
                sv == Salvar(novo, arq, io)
            IN Efeito(novo, sv.arquivo, IF sv.ok THEN 1 ELSE 0,
                      IF sv.ok THEN "ok" ELSE "falha")

(***************************************************************************)
(* GerenciadorIA.gerar_resposta                                            *)
(***************************************************************************)
\* The exception classes of the openai package and of Python that
\* client.chat.completions.create can raise, each with its base class.
Base(c) ==
    CASE c = "APITimeoutError" -> "APIConnectionError"
      [] c = "APIConnectionError" -> "APIError"
      [] c = "APIStatusError" -> "APIError"
      [] c \in {"BadRequestError", "AuthenticationError", "PermissionDeniedError",
                "NotFoundError", "UnprocessableEntityError", "RateLimitError",
                "InternalServerError"} -> "APIStatusError"
      [] c = "APIError" -> "Exception"
      [] c = "AttributeError" -> "Exception"
      [] OTHER -> ""

RECURSIVE EhInstancia(_, _)
\* isinstance(<an exception of class c>, k)
EhInstancia(c, k) == c # "" /\ (c = k \/ EhInstancia(Base(c), k))

\* e.status_code of an APIStatusError.
StatusCode(c) ==
    CASE c = "BadRequestError" -> "400"
      [] c = "AuthenticationError" -> "401"
      [] c = "PermissionDeniedError" -> "403"
      [] c = "NotFoundError" -> "404"
      [] c = "UnprocessableEntityError" -> "422"
      [] c = "RateLimitError" -> "429"
      [] c = "InternalServerError" -> "500"
      [] OTHER -> ""

\* What one call of the completion endpoint does: it answers ("ok"), or
\* raises one of these classes (AttributeError: a choice without content).
ErrosAPI == {"APIConnectionError", "APITimeoutError", "RateLimitError",
             "AuthenticationError", "PermissionDeniedError", "NotFoundError",
             "UnprocessableEntityError", "BadRequestError", "InternalServerError",
             "AttributeError"}
ResultadosAPI == {"ok"} \cup ErrosAPI

\* The outcomes the endpoint has in the runs of the store and orchestrator.
ResultadosAPIBase == {"ok", "RateLimitError", "APITimeoutError"}

\* The fallback strings.
MsgSemCliente == "Servico de IA indisponivel no momento (falha na inicializacao ou configuracao)."
MsgConexao == "O oraculo nao conseguiu se conectar aos reinos etereos."
MsgRateLimit == "O oraculo esta sobrecarregado no momento devido a muitas consultas."
MsgAuth == "A chave de acesso do Oraculo (API Key) e invalida ou expirou."
MsgPermissao == "O Oraculo nao tem permissao para acessar este recurso."
MsgNaoEncontrado == "O Oraculo nao encontrou o recurso solicitado."
MsgInvalido == "O Oraculo nao entendeu a solicitacao devido a um formato invalido."
MsgStatus(code) ==
    CASE code = "400" -> "O oraculo encontrou um problema inesperado (Erro 400)."
      [] code = "500" -> "O oraculo encontrou um problema inesperado (Erro 500)."
      [] OTHER -> "O oraculo encontrou um problema inesperado (Erro)."
MsgTimeout == "A consulta ao Oraculo demorou demais para responder."
MsgInesperado == "O oraculo esta temporariamente confuso."

\* The except clauses of gerar_resposta, in the order written.
Handlers == <<"APIConnectionError", "RateLimitError", "AuthenticationError",
              "PermissionDeniedError", "NotFoundError", "UnprocessableEntityError",
              "APIStatusError", "APITimeoutError", "Exception">>

\* The string the except clause for class k returns for an exception of class c.
MsgDoHandler(k, c) ==
    CASE k = "APIConnectionError" -> MsgConexao
      [] k = "RateLimitError" -> MsgRateLimit
      [] k = "AuthenticationError" -> MsgAuth
      [] k = "PermissionDeniedError" -> MsgPermissao
      [] k = "NotFoundError" -> MsgNaoEncontrado
      [] k = "UnprocessableEntityError" -> MsgInvalido
      [] k = "APIStatusError" -> MsgStatus(StatusCode(c))
      [] k = "APITimeoutError" -> MsgTimeout
      [] OTHER -> MsgInesperado

\* The first except clause, in the order written, that matches class c.
PrimeiroHandler(c) ==
    Handlers[CHOOSE i \in 1..Len(Handlers) :
                /\ EhInstancia(c, Handlers[i])
                /\ \A j \in 1..(i - 1) : ~EhInstancia(c, Handlers[j])]

\* gerar_resposta: the string returned when the client is cli (TRUE when
\* initialised) and the endpoint does api.
GerarResposta(cli, api) ==
    IF ~cli THEN MsgSemCliente
    ELSE IF api = "ok" THEN Strip(ConteudoIA)
    ELSE MsgDoHandler(PrimeiroHandler(api), api)

\* Whether gerar_resposta reaches the endpoint.
ChamaAPI(cli) == cli

(***************************************************************************)
(* State.                                                                  *)
(***************************************************************************)
VARIABLES
    dados,      \* self.db.dados["perguntas"]: the records in memory
    arquivo,    \* the content of data/perguntas.json
    client,     \* self.ia.client is set
    pc,         \* position of the processar_pergunta call in progress
    registro,   \* its local registro: the position in dados of the dict it names
    resposta,   \* its local resposta
    chamada,    \* the last call: its name, arguments, what salvar() and the API did
    ret,        \* the value the last call returned
    excecao,    \* an exception escaped the last call
    nChamadas,  \* completion calls made by the last processar_pergunta
    dadosB,     \* the records in memory of a second BancoDeDados on the same file
    avisados    \* positions of the records whose call reported that salvar() failed

vars == <<dados, arquivo, client, pc, registro, resposta, chamada, ret, excecao, nChamadas,
          dadosB, avisados>>

Chamada(op, pergunta, id, salvar, api) ==
    [op |-> op, pergunta |-> pergunta, id |-> id, salvar |-> salvar, api |-> api]

\* Returned values: None, a bool, or a dict (a record, with the keys erro
\* and aviso that processar_pergunta adds to it).
RetNone == [tipo |-> "None", b |-> FALSE, erro |-> PyAbsent, aviso |-> PyAbsent, reg |-> DictVazio]
RetBool(x) == [tipo |-> "bool", b |-> x, erro |-> PyAbsent, aviso |-> PyAbsent, reg |-> DictVazio]
RetDict(erro, aviso, reg) == [tipo |-> "dict", b |-> FALSE, erro |-> erro, aviso |-> aviso, reg |-> reg]
RetPendente == [tipo |-> "", b |-> FALSE, erro |-> PyAbsent, aviso |-> PyAbsent, reg |-> DictVazio]

\* The messages of processar_pergunta.
MsgVazia == "A pergunta nao pode estar vazia."
MsgFalhaRegistro == "Desculpe, houve uma falha ao registrar sua pergunta."
MsgSemClienteOraculo == "Servico de IA indisponivel no momento."
MsgAviso == "Sua resposta foi gerada, mas houve um problema ao salva-la permanentemente."

\* What the calls of this instance have reported so far: a call whose
\* salvar() returned False (adicionar_pergunta returning None,
\* responder_pergunta returning False on a record it found) adds the
\* position of its record; a new instance starts with none.
Historia ==
    avisados' =
        IF chamada'.op = "carregar" THEN {}
        ELSE IF chamada'.salvar # "falha" \/ pc' = "responder" THEN avisados
        ELSE IF pc = "idle" /\ chamada'.op # "responder_pergunta"
        THEN avisados \cup {Len(dados')}
        ELSE IF pc = "idle"
        THEN avisados \cup {i \in 1..Len(dados) : dados[i]["id"] = chamada'.id}
        ELSE avisados \cup {registro}

(***************************************************************************)
(* Construction: BancoDeDados.__init__ and GerenciadorIA.__init__.         *)
(***************************************************************************)
Init ==
    /\ arquivo \in ArquivosIniciais
    /\ client \in BOOLEAN
    /\ dados = Carregar(arquivo).dados
    /\ excecao = (Carregar(arquivo).exc # "")
    /\ pc = "idle"
    /\ registro = 0
    /\ resposta = PyNone
    /\ chamada = Chamada("carregar", PyNone, PyNone, "none", "")
    /\ ret = RetNone
    /\ nChamadas = 0
    /\ dadosB = Carregar(arquivo).dados
    /\ avisados = {}

\* A new process: Oraculo() again, on the file as it is.
Reiniciar ==
    /\ pc = "idle"
    /\ \E cli \in BOOLEAN : client' = cli
    /\ dados' = Carregar(arquivo).dados
    /\ excecao' = (Carregar(arquivo).exc # "")
    /\ chamada' = Chamada("carregar", PyNone, PyNone, "none", "")
    /\ ret' = RetNone
    /\ registro' = 0
    /\ resposta' = PyNone
    /\ nChamadas' = 0
    /\ UNCHANGED <<arquivo, pc>>
    /\ UNCHANGED dadosB
    /\ Historia

(***************************************************************************)
(* Direct calls of the store.                                              *)
(***************************************************************************)
PerguntasDiretas == {PyStr("O que e sabedoria?")}
RespostasDiretas == {PyStr("x")}

Adicionar ==
    /\ pc = "idle"
    /\ Len(dados) < MaxPerguntas
    /\ \E p \in PerguntasDiretas, c \in ContextosEntrada, t \in Timestamps, io \in ResultadosIO :
         LET e == AdicionarPergunta(dados, arquivo, p, c, t, io)
         IN /\ dados' = e.dados
            /\ arquivo' = e.arquivo
            /\ ret' = IF e.ret = 0 THEN RetNone ELSE RetDict(PyAbsent, PyAbsent, e.dados[e.ret])
            /\ chamada' = Chamada("adicionar_pergunta", p, PyNone, e.salvar, "")
    /\ excecao' = FALSE
    /\ nChamadas' = 0
    /\ UNCHANGED <<client, pc, registro, resposta>>
    /\ UNCHANGED dadosB
    /\ Historia

Responder ==
    /\ pc = "idle"
    /\ \E i \in 1..(MaxPerguntas + 1), r \in RespostasDiretas, t \in Timestamps, io \in ResultadosIO :
         LET e == ResponderPergunta(dados, arquivo, PyInt(i), r, t, io)
         IN /\ dados' = e.dados
            /\ arquivo' = e.arquivo
            /\ ret' = RetBool(e.ret = 1)
            /\ chamada' = Chamada("responder_pergunta", PyNone, PyInt(i), e.salvar, "")
    /\ excecao' = FALSE
    /\ nChamadas' = 0
    /\ UNCHANGED <<client, pc, registro, resposta>>
    /\ UNCHANGED dadosB
    /\ Historia

(***************************************************************************)
(* Oraculo.processar_pergunta, in the steps of its body.                   *)
(***************************************************************************)
\* The validation without the strip() test.
InvalidaSemStrip(p) == ~Truthy(p) \/ p.t # "str"

\* not pergunta or not isinstance(pergunta, str) or not pergunta.strip()
Invalida(p) == ~Truthy(p) \/ p.t # "str" \/ Strip(p.s) = ""

\* The validation; the call returns here for an invalid question.
ProcessarInvalida ==
    /\ pc = "idle"
    /\ \E p \in PerguntasEntrada :
         /\ Invalida(p)
         /\ chamada' = Chamada("processar_pergunta", p, PyNone, "none", "")
    /\ ret' = RetDict(PyStr(MsgVazia), PyAbsent, DictVazio)
    /\ nChamadas' = 0
    /\ excecao' = FALSE
    /\ registro' = 0
    /\ resposta' = PyNone
    /\ UNCHANGED <<dados, arquivo, client, pc>>
    /\ UNCHANGED dadosB
    /\ Historia

\* Step 1 going on to the completion whatever adicionar_pergunta returned.
AposAdicionarSemTeste(reg) == "gerar"

\* Where the call goes after step 1 (reg = 0: adicionar_pergunta returned
\* None): `if not registro: return {"erro": ...}`.
AposAdicionar(reg) == IF reg = 0 THEN "idle" ELSE "gerar"

\* 1. the validation passes and the question is added to the store.
ProcessarAdicionar ==
    /\ pc = "idle"
    /\ Len(dados) < MaxPerguntas
    /\ \E p \in PerguntasEntrada, c \in ContextosEntrada, t \in Timestamps, io \in ResultadosIO :
         /\ ~Invalida(p)
         /\ LET e == AdicionarPergunta(dados, arquivo, p, c, t, io)
            IN /\ dados' = e.dados
               /\ arquivo' = e.arquivo
               /\ registro' = e.ret
               /\ chamada' = Chamada("processar_pergunta", p, PyNone, e.salvar, "")
               /\ ret' = IF e.ret = 0
                         THEN RetDict(PyStr(MsgFalhaRegistro), PyAbsent, DictVazio)
                         ELSE RetPendente
               /\ pc' = AposAdicionar(e.ret)
    /\ nChamadas' = 0
    /\ excecao' = FALSE
    /\ resposta' = PyNone
    /\ UNCHANGED client
    /\ UNCHANGED dadosB
    /\ Historia

\* 2, without a client: the fixed message is stored as the answer and the
\* call returns it under "erro" together with the record.
ProcessarSemCliente ==
    /\ pc = "gerar"
    /\ ~client
    /\ \E t \in Timestamps, io \in ResultadosIO :
         LET r == PyStr(MsgSemClienteOraculo)
             e == ResponderPergunta(dados, arquivo, dados[registro]["id"], r, t, io)
             d == [e.dados EXCEPT ![registro]["resposta"] = r]
         IN /\ dados' = d
            /\ arquivo' = e.arquivo
            /\ ret' = RetDict(r, PyAbsent, d[registro])
            /\ chamada' = [chamada EXCEPT !.salvar = e.salvar, !.api = ""]
    /\ pc' = "idle"
    /\ registro' = 0
    /\ resposta' = PyNone
    /\ UNCHANGED <<client, excecao, nChamadas>>
    /\ UNCHANGED dadosB
    /\ Historia

\* 2. gerar_resposta, and the answer written into the dict registro names.
ProcessarGerar ==
    /\ pc = "gerar"
    /\ client
    /\ \E api \in ResultadosAPIBase :
         LET r == PyStr(GerarResposta(client, api))
         IN /\ resposta' = r
            /\ dados' = [dados EXCEPT ![registro]["resposta"] = r]
            /\ chamada' = [chamada EXCEPT !.api = api]
    /\ nChamadas' = nChamadas + (IF ChamaAPI(client) THEN 1 ELSE 0)
    /\ pc' = "responder"
    /\ UNCHANGED <<arquivo, client, registro, ret, excecao>>
    /\ UNCHANGED dadosB
    /\ Historia

\* The step 3 result that tags a failed save as an error without the record.
ResultadoComErro(salvo, reg) ==
    IF salvo THEN RetDict(PyAbsent, PyAbsent, reg)
    ELSE RetDict(PyStr(MsgFalhaRegistro), PyAbsent, DictVazio)

\* What step 3 returns: the record, under "aviso" when the save failed.
ResultadoDeResponder(salvo, reg) ==
    IF salvo THEN RetDict(PyAbsent, PyAbsent, reg)
    ELSE RetDict(PyAbsent, PyStr(MsgAviso), reg)

\* 3. the answer is saved and the call returns.
ProcessarResponder ==
    /\ pc = "responder"
    /\ \E t \in Timestamps, io \in ResultadosIO :
         LET e == ResponderPergunta(dados, arquivo, dados[registro]["id"], resposta, t, io)
         IN /\ dados' = e.dados
            /\ arquivo' = e.arquivo
            /\ ret' = ResultadoDeResponder(e.ret = 1, e.dados[registro])
            /\ chamada' = [chamada EXCEPT !.salvar = e.salvar]
    /\ pc' = "idle"
    /\ registro' = 0
    /\ resposta' = PyNone
    /\ UNCHANGED <<client, excecao, nChamadas>>
    /\ UNCHANGED dadosB
    /\ Historia

(***************************************************************************)
(* A second Oraculo on the same file: another server process, each with    *)
(* the BancoDeDados it loaded when it started.                             *)
(***************************************************************************)
PerguntasB == {PyStr("Quem sou eu?")}

\* adicionar_pergunta called on the second instance.
AdicionarB ==
    /\ pc = "idle"
    /\ Len(dadosB) < MaxPerguntas
    /\ \E p \in PerguntasB, t \in Timestamps, io \in ResultadosIO :
         LET e == AdicionarPergunta(dadosB, arquivo, p, PyNone, t, io)
         IN /\ dadosB' = e.dados
            /\ arquivo' = e.arquivo
            /\ ret' = IF e.ret = 0 THEN RetNone ELSE RetDict(PyAbsent, PyAbsent, e.dados[e.ret])
            /\ chamada' = Chamada("adicionar_pergunta", p, PyNone, e.salvar, "")
    /\ excecao' = FALSE
    /\ nChamadas' = 0
    /\ UNCHANGED <<dados, client, pc, registro, resposta, avisados>>

Next ==
    \/ Reiniciar
    \/ Adicionar
    \/ Responder
    \/ ProcessarInvalida
    \/ ProcessarAdicionar
    \/ ProcessarSemCliente
    \/ ProcessarGerar
    \/ ProcessarResponder

Spec == Init /\ [][Next]_vars

\* Two instances writing the same file.
NextDois ==
    \/ Adicionar
    \/ AdicionarB
    \/ Responder

SpecDois == Init /\ [][NextDois]_vars

(***************************************************************************)
(* Properties.                                                             *)
(***************************************************************************)
\* A value that is set: neither a missing key nor None.
Presente(v) == v.t \notin {"absent", "None"}

\* The last step was a call on the same store instance (not a new process).
MesmaInstancia == chamada'.op # "carregar"

\* The file holds a document of the shape the store writes.
ArquivoBemFormado ==
    arquivo.kind = "json" /\ arquivo.top = "dict" /\ arquivo.contem /\ arquivo.lista

\* C1: the ids of the records are 1, 2, ..., N in the order of creation,
\* without gaps or repeats, whatever responder_pergunta calls come between.
C1_IdsSequenciais ==
    \A i \in 1..Len(dados) : dados[i]["id"] = PyInt(i)

C1_Witness ==
    /\ Len(dados) >= 2
    /\ dados[1]["respondida"] = PyTrue
    /\ dados[2]["id"] = PyInt(2)
    /\ chamada.op = "adicionar_pergunta"

\* C2: in every state, also inside processar_pergunta, a record has
\* respondida = true exactly when its resposta is not null and its
\* data_resposta is set.
C2_RespondidaSse ==
    \A i \in 1..Len(dados) :
        (dados[i]["respondida"] = PyTrue)
            <=> (Presente(dados[i]["resposta"]) /\ Presente(dados[i]["data_resposta"]))

\* Between lines 366 and 369: the answer is in the stored record, which is
\* still pending.
C2_Witness ==
    /\ pc = "responder"
    /\ Presente(dados[registro]["resposta"])
    /\ dados[registro]["respondida"] = PyFalse

\* C3 as stated: within one store instance no record is removed, and an
\* answered record keeps its resposta, respondida, data_resposta and data.
C3_Original ==
    [][MesmaInstancia =>
         /\ Len(dados') >= Len(dados)
         /\ \A i \in 1..Len(dados) :
              dados[i]["respondida"] = PyTrue =>
                 /\ dados'[i]["resposta"] = dados[i]["resposta"]
                 /\ dados'[i]["respondida"] = dados[i]["respondida"]
                 /\ dados'[i]["data_resposta"] = dados[i]["data_resposta"]
                 /\ dados'[i]["data"] = dados[i]["data"]]_vars

\* C3 as amended: within one store instance no record is removed, no
\* record's id, pergunta, contexto or data ever changes, an answered record
\* stays answered, and the resposta and data_resposta of an answered record
\* change only in a responder_pergunta call that names the record's id.
C3_UmaTransicao ==
    [][MesmaInstancia =>
         /\ Len(dados') >= Len(dados)
         /\ \A i \in 1..Len(dados) :
              /\ dados'[i]["id"] = dados[i]["id"]
              /\ dados'[i]["pergunta"] = dados[i]["pergunta"]
              /\ dados'[i]["contexto"] = dados[i]["contexto"]
              /\ dados'[i]["data"] = dados[i]["data"]
              /\ dados[i]["respondida"] = PyTrue =>
                   /\ dados'[i]["respondida"] = PyTrue
                   /\ Presente(dados'[i]["resposta"])
                   /\ Presente(dados'[i]["data_resposta"])
                   /\ (\/ dados'[i]["resposta"] # dados[i]["resposta"]
                       \/ dados'[i]["data_resposta"] # dados[i]["data_resposta"])
                      => (/\ chamada'.op = "responder_pergunta"
                          /\ chamada'.id = dados[i]["id"])]_vars

\* Two answered records, the second one answered by processar_pergunta
\* after the first.
C3_Witness ==
    /\ Len(dados) >= 2
    /\ dados[1]["respondida"] = PyTrue
    /\ dados[2]["respondida"] = PyTrue
    /\ chamada.op = "processar_pergunta"
    /\ pc = "idle"

\* C4 as stated: whatever a salvar() does, the file afterwards holds the
\* complete previous content or the complete new record set.
C4_Atomica ==
    [][\/ arquivo' = arquivo
       \/ TudoSerializavel(dados') /\ arquivo' = ArqDoc(dados')]_vars

\* C5: when the write of adicionar_pergunta fails, the call returns None
\* (processar_pergunta then returns its registration failure) and the new
\* pending record is the last record in memory.
C5_FalhaMantemRegistro ==
    [][(/\ pc = "idle"
        /\ chamada'.op \in {"adicionar_pergunta", "processar_pergunta"}
        /\ chamada'.salvar = "falha")
       => /\ pc' = "idle"
          /\ IF chamada'.op = "adicionar_pergunta"
             THEN ret' = RetNone
             ELSE ret' = RetDict(PyStr(MsgFalhaRegistro), PyAbsent, DictVazio)
          /\ Len(dados') = Len(dados) + 1
          /\ SubSeq(dados', 1, Len(dados)) = dados
          /\ dados'[Len(dados')]["pergunta"] = chamada'.pergunta
          /\ dados'[Len(dados')]["resposta"] = PyNone
          /\ dados'[Len(dados')]["respondida"] = PyFalse]_vars

C5_Witness ==
    /\ chamada.op = "adicionar_pergunta"
    /\ chamada.salvar = "falha"
    /\ ret = RetNone
    /\ Len(dados) >= 1
    /\ dados[Len(dados)]["respondida"] = PyFalse
    /\ ~ArquivoBemFormado \/ Len(arquivo.itens) < Len(dados)

\* C6: responder_pergunta with an id no record has returns False, leaves
\* the records in memory as they were and does not write the file.
C6_IdDesconhecido ==
    [][(/\ pc = "idle"
        /\ chamada'.op = "responder_pergunta"
        /\ \A i \in 1..Len(dados) : dados[i]["id"] # chamada'.id)
       => /\ ret' = RetBool(FALSE)
          /\ dados' = dados
          /\ arquivo' = arquivo
          /\ chamada'.salvar = "none"]_vars

\* An unknown id given to a store that holds records the file lacks.
C6_Witness ==
    /\ chamada.op = "responder_pergunta"
    /\ chamada.salvar = "none"
    /\ ret = RetBool(FALSE)
    /\ Len(dados) >= 1
    /\ \A i \in 1..Len(dados) : dados[i]["id"] # chamada.id
    /\ ~ArquivoBemFormado \/ Len(arquivo.itens) < Len(dados)

\* C7: loading never raises, and a file that is absent, empty, not JSON, or
\* JSON of the wrong shape leaves the store with the empty record set.
C7_CarregaVazio ==
    chamada.op = "carregar" =>
        /\ ~excecao
        /\ ~ArquivoBemFormado => dados = <<>>

\* Loaded from a JSON number, where the membership test raises TypeError.
C7_Witness ==
    /\ chamada.op = "carregar"
    /\ arquivo.kind = "json"
    /\ arquivo.top = "int"
    /\ dados = <<>>

\* C8: a successful salvar() followed by _carregar() in a fresh instance
\* yields the saved record set, field for field and in the same order.
C8_IdaEVolta ==
    [][(chamada'.op = "carregar" /\ chamada.salvar = "ok") => dados' = dados]_vars

\* Reloaded: an answered record and a pending one.
C8_Witness ==
    /\ chamada.op = "carregar"
    /\ Len(dados) >= 2
    /\ dados[1]["respondida"] = PyTrue
    /\ dados[2]["respondida"] = PyFalse
    /\ dados[2]["resposta"] = PyNone
    /\ ArquivoBemFormado
    /\ Len(arquivo.itens) = 2

\* A question that is empty, only white space, or not a string.
PerguntaRejeitavel(p) == p.t # "str" \/ p.s \in {"", "   "}

\* C9: processar_pergunta with an empty, whitespace-only or non-string
\* question returns the validation failure, creates no record, leaves the
\* file alone and does not call the completion endpoint.
C9_Validacao ==
    [][(/\ pc = "idle"
        /\ chamada'.op = "processar_pergunta"
        /\ PerguntaRejeitavel(chamada'.pergunta))
       => /\ ret' = RetDict(PyStr(MsgVazia), PyAbsent, DictVazio)
          /\ pc' = "idle"
          /\ dados' = dados
          /\ arquivo' = arquivo
          /\ nChamadas' = 0
          /\ chamada'.api = ""]_vars

C9_Witness ==
    /\ chamada.op = "processar_pergunta"
    /\ chamada.pergunta = PyStr("   ")
    /\ ret = RetDict(PyStr(MsgVazia), PyAbsent, DictVazio)
    /\ Len(dados) >= 1
    /\ nChamadas = 0

\* The failure category of the last completion attempt: "Unconfigured"
\* without a client, else the class the endpoint raised.
Categoria == IF ~client THEN "Unconfigured" ELSE chamada.api

\* The fallback string written for each category.
FallbackDaCategoria(c) ==
    CASE c = "Unconfigured" -> MsgSemCliente
      [] c = "APIConnectionError" -> MsgConexao
      [] c = "APITimeoutError" -> MsgTimeout
      [] c = "AuthenticationError" -> MsgAuth
      [] c = "PermissionDeniedError" -> MsgPermissao
      [] c = "RateLimitError" -> MsgRateLimit
      [] c = "NotFoundError" -> MsgNaoEncontrado
      [] c = "UnprocessableEntityError" -> MsgInvalido
      [] c = "BadRequestError" -> MsgStatus("400")
      [] c = "InternalServerError" -> MsgStatus("500")
      [] OTHER -> MsgInesperado

\* C10 as stated: a processar_pergunta call with a valid question whose
\* writes succeeded and whose completion failed returns the record without
\* an error tag, answered with the fallback string of the failure category,
\* and the file holds that answered record.
C10_FalhaViraResposta ==
    (/\ pc = "idle"
     /\ chamada.op = "processar_pergunta"
     /\ ~PerguntaRejeitavel(chamada.pergunta)
     /\ chamada.salvar = "ok"
     /\ Categoria # "ok")
    => /\ ret.tipo = "dict"
       /\ ret.erro = PyAbsent
       /\ ret.reg["resposta"] = PyStr(FallbackDaCategoria(Categoria))
       /\ ret.reg["respondida"] = PyTrue
       /\ ArquivoBemFormado
       /\ \E i \in 1..Len(arquivo.itens) : RegistroDeJson(arquivo.itens[i]) = ret.reg

\* C11: when adicionar_pergunta succeeded and the answer was generated but
\* responder_pergunta returns False, processar_pergunta returns the record
\* under a warning, without an error tag, carrying the generated answer.
C11_SucessoParcial ==
    [][(pc = "responder" /\ chamada'.salvar # "ok")
       => /\ pc' = "idle"
          /\ ret'.tipo = "dict"
          /\ ret'.aviso = PyStr(MsgAviso)
          /\ ret'.erro = PyAbsent
          /\ Presente(resposta)
          /\ ret'.reg["resposta"] = resposta
          /\ ret'.reg["id"] = dados[registro]["id"]]_vars

C11_Witness ==
    /\ pc = "idle"
    /\ chamada.op = "processar_pergunta"
    /\ chamada.api = "ok"
    /\ chamada.salvar = "falha"
    /\ ret.aviso = PyStr(MsgAviso)
    /\ ret.reg["resposta"] = PyStr(Strip(ConteudoIA))

\* The failure categories of the completion client, by the class raised.
CategoriasDeFalha ==
    {"Unconfigured", "APIConnectionError", "APITimeoutError", "AuthenticationError",
     "PermissionDeniedError", "RateLimitError", "BadRequestError",
     "InternalServerError", "AttributeError"}

\* C12 as stated: gerar_resposta never raises, and for a failure of any
\* category it returns that category's fallback string, which is the
\* fallback string of no other category (a timeout yields the timeout
\* message, not the connection-failure message).
C12_FallbackPorCategoria ==
    (pc = "responder" /\ chamada.api # "ok")
    => /\ ~excecao
       /\ resposta = PyStr(FallbackDaCategoria(Categoria))
       /\ \A c \in CategoriasDeFalha \ {Categoria} :
            resposta # PyStr(FallbackDaCategoria(c))

\* The moves of a processar_pergunta call: validate and add (from "idle"),
\* generate (from "gerar"), save the answer (from "responder").
PassosPermitidos ==
    {<<"idle", "idle">>, <<"idle", "gerar">>, <<"gerar", "responder">>,
     <<"gerar", "idle">>, <<"responder", "idle">>}

\* C13: a processar_pergunta call goes through validate, adicionar_pergunta,
\* gerar_resposta, responder_pergunta in that order, each at most once and
\* none revisited; the completion endpoint is called only after
\* adicionar_pergunta returned a record, so a failed adicionar_pergunta ends
\* the call with the registration failure and no completion call; a call in
\* progress can always take its next step, and it ends with one result.
C13_OrdemDosPassos ==
    /\ [][/\ <<pc, pc'>> \in PassosPermitidos
          /\ pc' = "gerar" =>
               /\ registro' = Len(dados')
               /\ Len(dados') = Len(dados) + 1
               /\ chamada'.salvar = "ok"
               /\ nChamadas' = 0
          /\ pc # "idle" =>
               /\ Len(dados') = Len(dados)
               /\ registro # 0
               /\ chamada'.op = "processar_pergunta"
          /\ nChamadas' > nChamadas =>
               /\ pc = "gerar"
               /\ pc' = "responder"
               /\ nChamadas' = 1
          /\ pc = "responder" => nChamadas' = nChamadas
          /\ (/\ pc = "idle"
              /\ chamada'.op = "processar_pergunta"
              /\ ~PerguntaRejeitavel(chamada'.pergunta)
              /\ chamada'.salvar # "ok") =>
               /\ pc' = "idle"
               /\ ret' = RetDict(PyStr(MsgFalhaRegistro), PyAbsent, DictVazio)
               /\ nChamadas' = 0
               /\ chamada'.api = ""
          /\ chamada'.op = "processar_pergunta" =>
               (pc' = "idle" <=> ret'.tipo = "dict")]_vars
    /\ [](pc = "gerar" => ENABLED (ProcessarSemCliente \/ ProcessarGerar))
    /\ [](pc = "responder" => ENABLED ProcessarResponder)

\* adicionar_pergunta failed inside processar_pergunta, on a store with a
\* client: the call has ended without a completion call.
C13_Witness ==
    /\ pc = "idle"
    /\ client
    /\ chamada.op = "processar_pergunta"
    /\ chamada.salvar = "falha"
    /\ chamada.api = ""
    /\ ret = RetDict(PyStr(MsgFalhaRegistro), PyAbsent, DictVazio)
    /\ nChamadas = 0
    /\ Len(dados) >= 1

\* The ids of the records of the file, and whether no two records share one.
IdsDe(arq) == {RegistroDeJson(arq.itens[i])["id"] : i \in 1..Len(arq.itens)}
IdsUnicos(arq) == Cardinality(IdsDe(arq)) = Len(arq.itens)

\* C14, single writer, as stated: with one BancoDeDados instance the ids in
\* the file are unique and no write drops a record the file held.
C14_EscritorUnico ==
    [][IdsUnicos(arquivo') /\ IdsDe(arquivo) \subseteq IdsDe(arquivo')]_vars

\* C14, two writers: the statement that TLC refutes under SpecDois, namely
\* that no successful adicionar_pergunta of one instance issues an id that
\* the file already holds for another question and puts its own record in
\* the place of that one.
C14_DoisEscritoresSeguros ==
    [][~(/\ chamada'.op = "adicionar_pergunta"
         /\ chamada'.salvar = "ok"
         /\ ArquivoBemFormado
         /\ \E i \in 1..Len(arquivo.itens) :
              LET antes == RegistroDeJson(arquivo.itens[i])
                  depois == RegistroDeJson(arquivo'.itens[i])
              IN /\ i <= Len(arquivo'.itens)
                 /\ depois["id"] = antes["id"]
                 /\ depois["pergunta"] # antes["pergunta"]
                 /\ \A j \in 1..Len(arquivo'.itens) :
                      RegistroDeJson(arquivo'.itens[j])["pergunta"] # antes["pergunta"])]_vars

\* C15: every successful salvar() writes the whole in-memory record list, so
\* once a call of this instance has saved, the file holds exactly the records
\* in memory, those included whose own call had reported a failed save
\* (step 3 of processar_pergunta is excluded while it is pending: step 2 has
\* changed the record in memory and step 3 has not saved yet).
C15_EscritaCompleta ==
    (chamada.salvar = "ok" /\ pc # "responder")
    => /\ TudoSerializavel(dados)
       /\ arquivo = ArqDoc(dados)
       /\ \A i \in avisados :
            /\ i <= Len(arquivo.itens)
            /\ RegistroDeJson(arquivo.itens[i]) = dados[i]

\* The add of record 1 (or its answer) reported a failed save, and a later
\* successful adicionar_pergunta for record 2 has written both.
C15_Witness ==
    /\ pc = "idle"
    /\ chamada.op = "adicionar_pergunta"
    /\ chamada.salvar = "ok"
    /\ avisados = {1}
    /\ Len(dados) = 2
    /\ Len(arquivo.itens) = 2
    /\ RegistroDeJson(arquivo.itens[1]) = dados[1]

====
